---- MODULE Spec2Model ----
(***************************************************************************)
(* Transport lifecycle manager of DualMailer (the revision with retry,     *)
(* consecutive-failure tracking and timed verify/close).                   *)
(*                                                                         *)
(* Time is counted in minutes.  The clock moves in steps of ClockStep      *)
(* minutes; the millisecond-scale timers (verify timeout, close timeout,  *)
(* retry back-off) are below that resolution and do not move the clock:    *)
(* a timer that wins its race is an outcome of the awaited step.           *)
(* Strings are sequences of words; String.includes is contiguous           *)
(* sub-sequence containment.  A configuration is the truthiness of its     *)
(* fields.  The logging callback returns, except under SpecLogger.         *)
(***************************************************************************)
EXTENDS Integers, Sequences, FiniteSets, TLC

\* ------------------------------------------------------------------ bounds
MaxTransporters == 2
MaxTime == 45
ClockStep == 15
MaxCalls == 4
MaxLifeCalls == 2
MaxConfigCalls == 6
MaxSweepCalls == 2
MaxSweepTime == 20

\* ----------------------------------- program constants (times in minutes)
max_transporter_age == 30
max_emails_per_transporter == 1000
max_consecutive_failures == 3
max_idle_time == 15
cleanup_interval_ms == 5

\* The send_mail calls that can be in flight, and the one a sequential caller uses.
Calls == {"c1", "c2"}
SeqCalls == {"c1"}
Ids == 1..MaxTransporters
NoId == 0

EMAIL_ERROR_CODES ==
  [CONFIGURATION |-> "EMAIL_CONFIG_ERROR",
   TRANSPORT |-> "EMAIL_TRANSPORT_ERROR",
   VALIDATION |-> "EMAIL_VALIDATION_ERROR",
   SEND |-> "EMAIL_SEND_ERROR",
   CONNECTION |-> "EMAIL_CONNECTION_ERROR"]

\* ------------------------------------------------------------ environment
\* Messages of the errors the underlying sendMail can reject with.
TemporaryError == <<"Temporary", "Error">>
SendFailed == <<"Send", "failed">>
RateLimitError == <<"Exceeded", "rate", "limit">>
SendErrors == {TemporaryError, SendFailed, RateLimitError}

\* Outcomes of the race between transporter.verify() and the verify timer.
VerifyOutcomes == {"true", "false", "rejected", "timeout"}
\* Outcomes of the race between transporter.close() and the close timer.
CloseOutcomes == {"resolved", "rejected", "timeout"}

\* Payloads by the presence of their required fields.
FullPayload == [to |-> TRUE, subject |-> TRUE, html |-> TRUE, title |-> TRUE, body |-> TRUE]
Payloads ==
  {FullPayload,
   [FullPayload EXCEPT !.to = FALSE],
   [FullPayload EXCEPT !.subject = FALSE],
   [FullPayload EXCEPT !.html = FALSE, !.title = FALSE, !.body = FALSE],
   [FullPayload EXCEPT !.title = FALSE],
   [FullPayload EXCEPT !.body = FALSE]}

\* options.retry objects a caller can pass: the keys of the README
\* (snake_case), the keys of the type declarations (camelCase), or none.
RetryCounts == {1, 4}
RetryLists == {<<>>, <<(<<"Temporary">>)>>}
CallerDelay == 100
SnakeRetryOptions ==
  {[max_retries |-> m, retry_delay |-> CallerDelay, retryable_errors |-> l] :
     m \in RetryCounts, l \in RetryLists}
CamelRetryOptions ==
  {[maxRetries |-> m, retryDelay |-> CallerDelay, retryableErrors |-> l] :
     m \in RetryCounts, l \in RetryLists}
RetryOptions == SnakeRetryOptions \cup CamelRetryOptions

\* An option the caller did not pass.
NoOption == <<>>

\* Configurations by the truthiness of their fields.
Configs ==
  [host : BOOLEAN, port : BOOLEAN, mailgun_api_key : BOOLEAN, mailgun_domain : BOOLEAN,
   user : BOOLEAN, password : BOOLEAN, is_dev : BOOLEAN]

BasicSmtpConfig ==
  [host |-> TRUE, port |-> TRUE, mailgun_api_key |-> FALSE, mailgun_domain |-> FALSE,
   user |-> FALSE, password |-> FALSE, is_dev |-> FALSE]

\* options.rate_limit objects a caller can pass: all four values, two of them, none.
RateLimitOptions ==
  {NoOption,
   [max_connections |-> 2, max_messages_per_connection |-> 3, rate_delta |-> 1000, rate_limit |-> 5],
   [rate_delta |-> 500, rate_limit |-> 10]}

\* ------------------------------------------------------------------ state
VARIABLES
  retry_given,      \* whether the caller passed options.retry
  retry,            \* this.#retry
  retry_enabled,    \* this.#retry_enabled
  cache,            \* this.#transporter_cache.get('default'): a record id or NoId
  infos,            \* the transporter records (objects) by identity
  transporters,     \* the underlying connections, by the identity of their record
  next_id,          \* identity of the next created transporter
  now,              \* Date.now(), in minutes
  calls,            \* the send_mail calls: position and locals
  calls_started,    \* number of send_mail calls begun so far
  config,           \* the config argument of the constructor, this.#config
  rate_limit,       \* options.rate_limit
  construction,     \* outcome of new DualMailer(config, options)
  cleanup_interval, \* whether this.#cleanup_interval is a running timer
  destroying,       \* the destroy() call: position and the record it closes
  sweeping,         \* the callback of the cleanup interval: position and record
  logger_throws_on  \* the levels at which this.#logger throws instead of returning

\* What is fixed once the constructor has returned.
setup == <<config, rate_limit, construction, retry_given, retry, retry_enabled, logger_throws_on>>

vars == <<setup, cleanup_interval, cache, infos, transporters, next_id, now, calls, destroying, sweeping, calls_started>>

\* ---------------------------------------------------------------- helpers
\* obj.key ?? default
Get(obj, key, default) == IF key \in DOMAIN obj THEN obj[key] ELSE default

\* message.includes(sub)
Includes(message, sub) ==
  \E i \in 0..(Len(message) - Len(sub)) : SubSeq(message, i + 1, i + Len(sub)) = sub

NoInfo ==
  [created_at |-> 0, email_count |-> 0, last_used |-> 0,
   consecutive_failures |-> 0, closing |-> FALSE, live |-> FALSE]

\* No descriptor: createTransport has not been called.
NoDescriptor == [transport |-> "none"]

NoTransporter ==
  [created |-> FALSE, is_idle |-> TRUE, close_calls |-> 0, fail_streak |-> 0,
   descriptor |-> NoDescriptor]

NoResult == [status |-> "none", code |-> "none", text |-> "", attempts |-> 0, cause |-> <<>>]
OkResult == [status |-> "ok", code |-> "none", text |-> "", attempts |-> 0, cause |-> <<>>]

\* new EmailError(message, code, originalError): text is the fixed part of the
\* message, attempts the count it states (0 when it states none), cause the
\* message of the error it wraps.
EmailError(text, code, attempts, cause) ==
  [status |-> "error", code |-> code, text |-> text, attempts |-> attempts, cause |-> cause]

IdleCall ==
  [pc |-> "idle", payload |-> FullPayload, attempt |-> 0, info |-> NoId,
   transporter |-> NoId, verify_result |-> "none", error |-> <<>>,
   result |-> NoResult, dispatches |-> 0, slept |-> <<>>, errors_seen |-> {},
   dev_log |-> FALSE, failure |-> NoResult, close_result |-> "none",
   delivered |-> 0]

\* The mutable part of the program an operation works on.
\* destroy(): info is the record whose close it awaits, target the identity of
\* the record it found in the cache, close_result how that close race ended,
\* count the number of destroy() calls made.
NoDestroy ==
  [pc |-> "idle", info |-> NoId, target |-> NoId, close_result |-> "none", count |-> 0]

\* The callback of the cleanup interval: info is the record whose close it awaits.
NoSweep == [pc |-> "idle", info |-> NoId]

\* The levels of this.#logger(level, message, meta).
LogLevels == {"info", "warn", "error"}

\* this.#logger(level, ...) throws.
logger_throws(level) == level \in logger_throws_on

\* The message logged after transporter.sendMail has resolved; a callback may
\* throw at this message alone.
SentMessage == "Email sent successfully"

\* What logger_throws_on may hold: levels, and that one message.
LogThrowPoints == LogLevels \cup {SentMessage}

\* this.#logger(level, message, ...) throws.
logger_throws_message(level, message) ==
  logger_throws(level) \/ message \in logger_throws_on

\* The exception of the logging callback: not an EmailError.
LoggerMessage == <<"logger", "failed">>
LoggerError == [status |-> "error", code |-> "none", text |-> "", attempts |-> 0, cause |-> LoggerMessage]

World ==
  [cache |-> cache, infos |-> infos, transporters |-> transporters,
   next_id |-> next_id, calls |-> calls, destroying |-> destroying,
   sweeping |-> sweeping, blocked |-> FALSE]

\* Objects no longer referenced by the cache or by a call are gone; of a
\* connection nobody holds, only the number of close() calls is remembered.
Reachable(w, i) ==
  \/ w.cache = i
  \/ \E c \in Calls : w.calls[c].info = i
  \/ w.destroying.info = i
  \/ w.sweeping.info = i

Held(w, i) == Reachable(w, i) \/ \E c \in Calls : w.calls[c].transporter = i

Commit(w) ==
  /\ ~w.blocked
  /\ cache' = w.cache
  /\ infos' = [i \in Ids |-> IF Reachable(w, i) THEN w.infos[i] ELSE NoInfo]
  /\ transporters' =
       [i \in Ids |->
          IF Held(w, i) THEN w.transporters[i]
          ELSE [w.transporters[i] EXCEPT !.is_idle = TRUE, !.fail_streak = 0]]
  /\ next_id' = w.next_id
  /\ calls' = w.calls
  /\ destroying' = w.destroying
  /\ sweeping' = w.sweeping

\* ------------------------------------------------------- pure operations
\* Variant of #validate_payload whose second check looks at html.body only.
validate_payload_body_only(payload) ==
  LET required_fields == {"to", "subject", "html"}
      missing_fields == {field \in required_fields : ~payload[field]}
  IN IF missing_fields # {} THEN "Missing required fields"
     ELSE IF ~payload.body
          THEN "HTML email requires both title and body"
          ELSE ""

\* #validate_payload: the text of the error it throws, "" when it returns.
validate_payload(payload) ==
  LET required_fields == {"to", "subject", "html"}
      missing_fields == {field \in required_fields : ~payload[field]}
  IN IF missing_fields # {} THEN "Missing required fields"
     ELSE IF ~payload.title \/ ~payload.body
          THEN "HTML email requires both title and body"
          ELSE ""

\* Variant of #validate_config that only asks for one complete backend.
validate_config_either_backend(cfg) ==
  LET has_smtp == cfg.host /\ cfg.port
      has_mailgun == cfg.mailgun_api_key /\ cfg.mailgun_domain
  IN IF ~has_smtp /\ ~has_mailgun
     THEN "Must provide either SMTP (host + port) or Mailgun (api_key + domain) configuration"
     ELSE IF cfg.user /\ ~cfg.password THEN "SMTP password is required when user is provided"
     ELSE IF cfg.password /\ ~cfg.user THEN "SMTP user is required when password is provided"
     ELSE ""

\* Variant of #validate_config without the check of a password without user.
validate_config_user_only(cfg) ==
  LET has_smtp == cfg.host /\ cfg.port
      has_mailgun == cfg.mailgun_api_key /\ cfg.mailgun_domain
  IN IF ~has_smtp /\ ~has_mailgun
     THEN "Must provide either SMTP (host + port) or Mailgun (api_key + domain) configuration"
     ELSE IF cfg.host /\ ~cfg.port THEN "SMTP port is required when host is provided"
     ELSE IF cfg.port /\ ~cfg.host THEN "SMTP host is required when port is provided"
     ELSE IF cfg.mailgun_api_key /\ ~cfg.mailgun_domain
          THEN "Mailgun domain is required when api_key is provided"
     ELSE IF cfg.mailgun_domain /\ ~cfg.mailgun_api_key
          THEN "Mailgun API key is required when domain is provided"
     ELSE IF cfg.user /\ ~cfg.password THEN "SMTP password is required when user is provided"
     ELSE ""

\* #validate_config: the message of the error it throws, "" when it returns.
validate_config(cfg) ==
  LET has_smtp == cfg.host /\ cfg.port
      has_mailgun == cfg.mailgun_api_key /\ cfg.mailgun_domain
  IN IF ~has_smtp /\ ~has_mailgun
     THEN "Must provide either SMTP (host + port) or Mailgun (api_key + domain) configuration"
     ELSE IF cfg.host /\ ~cfg.port THEN "SMTP port is required when host is provided"
     ELSE IF cfg.port /\ ~cfg.host THEN "SMTP host is required when port is provided"
     ELSE IF cfg.mailgun_api_key /\ ~cfg.mailgun_domain
          THEN "Mailgun domain is required when api_key is provided"
     ELSE IF cfg.mailgun_domain /\ ~cfg.mailgun_api_key
          THEN "Mailgun API key is required when domain is provided"
     ELSE IF cfg.user /\ ~cfg.password THEN "SMTP password is required when user is provided"
     ELSE IF cfg.password /\ ~cfg.user THEN "SMTP user is required when password is provided"
     ELSE ""

\* What new DualMailer(cfg, options) does: it returns, or throws the
\* validation error wrapped in a configuration error.
constructor_result(cfg) ==
  LET invalid == validate_config(cfg) IN
  IF invalid # ""
  THEN EmailError("Configuration error", EMAIL_ERROR_CODES.CONFIGURATION, 0, <<invalid>>)
  ELSE OkResult

\* Variant of the constructor that starts the cleanup interval in every mode.
start_cleanup_interval_always(cfg) == TRUE

\* Whether the constructor starts the cleanup interval.
start_cleanup_interval(cfg) == ~cfg.is_dev

\* Variant of #get_transport_config that looks at the Mailgun fields first.
get_transport_config_mailgun_first(cfg, options_rate_limit) ==
  IF cfg.mailgun_api_key /\ cfg.mailgun_domain
  THEN [transport |-> "mailgun"]
  ELSE IF cfg.host /\ cfg.port
       THEN IF cfg.user /\ cfg.password
            THEN [transport |-> "smtp", secure |-> ~cfg.is_dev, auth |-> TRUE, pool |-> TRUE,
                  maxConnections |-> 5, maxMessages |-> 200, rateDelta |-> 1000, rateLimit |-> 5]
            ELSE [transport |-> "smtp", secure |-> ~cfg.is_dev]
       ELSE [transport |-> "error"]

\* Variant of #get_transport_config that pools every SMTP connection.
get_transport_config_pool_always(cfg, options_rate_limit) ==
  IF cfg.host /\ cfg.port
  THEN IF cfg.user /\ cfg.password
       THEN [transport |-> "smtp", secure |-> ~cfg.is_dev, auth |-> TRUE, pool |-> TRUE,
             maxConnections |-> 5, maxMessages |-> 200, rateDelta |-> 1000, rateLimit |-> 5]
       ELSE [transport |-> "smtp", secure |-> ~cfg.is_dev, pool |-> TRUE,
             maxConnections |-> 5, maxMessages |-> 200, rateDelta |-> 1000, rateLimit |-> 5]
  ELSE IF cfg.mailgun_api_key /\ cfg.mailgun_domain
       THEN [transport |-> "mailgun"]
       ELSE [transport |-> "error"]

\* #get_transport_config: the argument handed to nodemailer.createTransport.
get_transport_config(cfg, options_rate_limit) ==
  IF cfg.host /\ cfg.port
  THEN IF cfg.user /\ cfg.password
       THEN [transport |-> "smtp", secure |-> ~cfg.is_dev, auth |-> TRUE, pool |-> TRUE,
             maxConnections |-> 5, maxMessages |-> 200, rateDelta |-> 1000, rateLimit |-> 5]
       ELSE [transport |-> "smtp", secure |-> ~cfg.is_dev]
  ELSE IF cfg.mailgun_api_key /\ cfg.mailgun_domain
       THEN [transport |-> "mailgun"]
       ELSE [transport |-> "error"]

\* Variants of #should_refresh_transporter with one comparison off by one.
should_refresh_idle_at_limit(info, is_idle, t) ==
  \/ t - info.created_at > max_transporter_age
  \/ info.email_count > max_emails_per_transporter
  \/ t - info.last_used >= max_idle_time
  \/ ~is_idle
  \/ info.consecutive_failures >= max_consecutive_failures

should_refresh_age_at_limit(info, is_idle, t) ==
  \/ t - info.created_at >= max_transporter_age
  \/ info.email_count > max_emails_per_transporter
  \/ t - info.last_used > max_idle_time
  \/ ~is_idle
  \/ info.consecutive_failures >= max_consecutive_failures

should_refresh_count_at_limit(info, is_idle, t) ==
  \/ t - info.created_at > max_transporter_age
  \/ info.email_count >= max_emails_per_transporter
  \/ t - info.last_used > max_idle_time
  \/ ~is_idle
  \/ info.consecutive_failures >= max_consecutive_failures

should_refresh_failures_above_limit(info, is_idle, t) ==
  \/ t - info.created_at > max_transporter_age
  \/ info.email_count > max_emails_per_transporter
  \/ t - info.last_used > max_idle_time
  \/ ~is_idle
  \/ info.consecutive_failures > max_consecutive_failures

\* #should_refresh_transporter(info) at time t, isIdle() answering is_idle.
should_refresh_transporter(info, is_idle, t) ==
  LET age == t - info.created_at
      idle_time == t - info.last_used
  IN \/ age > max_transporter_age
     \/ info.email_count > max_emails_per_transporter
     \/ idle_time > max_idle_time
     \/ ~is_idle
     \/ info.consecutive_failures >= max_consecutive_failures

\* The constructor's treatment of options.retry.
DefaultRetry == [max_retries |-> 3, retry_delay |-> 1000, retryable_errors |-> <<>>]

constructor_retry(given, option) == IF given THEN option ELSE DefaultRetry

\* Variant: enabled whenever this.#retry is set, which it always is.
constructor_retry_enabled_always(given, option) == TRUE

constructor_retry_enabled(given, option) == given

\* should_retry(error, attempt) of send_mail.
should_retry(error, attempt) ==
  IF ~retry_enabled THEN FALSE
  ELSE IF attempt > Get(retry, "maxRetries", 3) THEN FALSE
  ELSE IF Len(Get(retry, "retryableErrors", <<>>)) = 0 THEN TRUE
  ELSE \E i \in 1..Len(retry.retryableErrors) : Includes(error, retry.retryableErrors[i])

\* The delay slept before the retry that follows failed attempt number attempt.
retry_delay_ms(attempt) == Get(retry, "retryDelay", 1000) * 2^(attempt - 1)

\* Variant: the message states the number of retries, not of attempts.
send_error_counts_retries(attempt, message) ==
  EmailError("Failed to send email after", EMAIL_ERROR_CODES.SEND, attempt - 1, message)

\* The error send_mail raises when a failed dispatch is not retried.
send_error(attempt, message) ==
  EmailError("Failed to send email after", EMAIL_ERROR_CODES.SEND, attempt, message)

\* Variant of the error of #get_transporter that takes its code from a key
\* EMAIL_ERROR_CODES does not have.
transporter_error_unknown_code(r) ==
  EmailError("Failed to create transporter", "undefined", 0,
             IF r = "timeout" THEN <<"Initial", "transporter", "verify", "timeout">>
             ELSE IF r = "config" THEN <<"Failed", "to", "create", "transport", "configuration">>
             ELSE <<"verify", "rejected">>)

\* The error #get_transporter raises when the new connection's verify race
\* ends in a rejection or in the timer, or when no transport configuration
\* could be built.
transporter_error(r) ==
  EmailError("Failed to create transporter", EMAIL_ERROR_CODES.TRANSPORT, 0,
             IF r = "timeout" THEN <<"Initial", "transporter", "verify", "timeout">>
             ELSE IF r = "config" THEN <<"Failed", "to", "create", "transport", "configuration">>
             ELSE <<"verify", "rejected">>)

\* ------------------------------------------- steps of send_mail on a world
\* The outer catch of send_mail: err is logged at level error and thrown, an
\* error that is not an EmailError wrapped in one; a logger that throws puts
\* its own exception in the place of err. failure keeps the error the call
\* failed with in the first place.
raise(w, c, err) ==
  [w EXCEPT !.calls[c].pc = "done",
            !.calls[c].result =
              IF logger_throws("error") THEN LoggerError
              ELSE IF err.code # "none" THEN err
              ELSE EmailError("Unexpected error sending email after", EMAIL_ERROR_CODES.SEND,
                              w.calls[c].attempt, err.cause),
            !.calls[c].failure =
              IF @ = NoResult /\ err.code # "none" THEN err ELSE @,
            !.calls[c].close_result = "none",
            !.calls[c].info = NoId, !.calls[c].transporter = NoId,
            !.calls[c].verify_result = "none"]

\* Variant of the end of a failed send in which development mode logs the
\* content and returns.
terminal_failure_dev_returns(w, c, attempt, message) ==
  IF config.is_dev
  THEN [w EXCEPT !.calls[c].pc = "done", !.calls[c].result = OkResult,
                 !.calls[c].dev_log = TRUE,
                 !.calls[c].info = NoId, !.calls[c].transporter = NoId,
                 !.calls[c].verify_result = "none"]
  ELSE raise(w, c, send_error(attempt, message))

\* A failed dispatch that is not retried: in development mode the content is
\* logged; the send error is thrown.
terminal_failure(w, c, attempt, message) ==
  IF config.is_dev /\ logger_throws("error") THEN raise(w, c, LoggerError)
  ELSE raise([w EXCEPT !.calls[c].dev_log = config.is_dev], c, send_error(attempt, message))

\* #get_transporter, creation: createTransport, the new record, verify begun.
create_transporter(w, c) ==
  LET descriptor == get_transport_config(config, rate_limit) IN
  IF descriptor.transport = "error" THEN raise(w, c, transporter_error("config"))
  ELSE IF w.next_id > MaxTransporters THEN [w EXCEPT !.blocked = TRUE]
  ELSE LET id == w.next_id IN
       [w EXCEPT !.infos[id] =
                   [created_at |-> now, email_count |-> 0, last_used |-> now,
                    consecutive_failures |-> 0, closing |-> FALSE, live |-> TRUE],
                 !.transporters[id] =
                   [NoTransporter EXCEPT !.created = TRUE, !.descriptor = descriptor],
                 !.next_id = id + 1,
                 !.calls[c].pc = "verify_new",
                 !.calls[c].info = id,
                 !.calls[c].verify_result = "none"]

\* cache.delete(key) followed by the creation path.
delete_and_create(w, c) == create_transporter([w EXCEPT !.cache = NoId], c)

\* Variant of #close_transporter that does not look at the closing flag.
close_called_unguarded(w, id) ==
  [w EXCEPT !.infos[id].closing = TRUE,
            !.transporters[id].close_calls = @ + 1]

\* #close_transporter(info) up to its await: unless the record is already
\* closing, it is flagged and close() is called on its connection.
close_called(w, id) ==
  IF w.infos[id].closing THEN w
  ELSE [w EXCEPT !.infos[id].closing = TRUE,
                 !.transporters[id].close_calls = @ + 1]

\* #close_transporter(existing) as called by #get_transporter: a record already
\* closing is skipped, otherwise close() is called and awaited.
close_transporter(w, c) ==
  LET id == w.calls[c].info IN
  IF w.infos[id].closing THEN delete_and_create(close_called(w, id), c)
  ELSE [close_called(w, id) EXCEPT !.calls[c].pc = "close_existing"]

\* The send is logged at level info and transporter.sendMail(...) is called
\* on connection id.
dispatch(w, c, id) ==
  IF logger_throws("info") THEN raise(w, c, LoggerError)
  ELSE [w EXCEPT !.calls[c].pc = "dispatching", !.calls[c].transporter = id,
                 !.calls[c].info = NoId, !.calls[c].dispatches = @ + 1,
                 !.calls[c].close_result = "none"]

\* Variant of that catch which throws the verification error on.
verify_existing_failed_raises(w, c) ==
  raise(w, c, EmailError("Transporter verification failed", EMAIL_ERROR_CODES.CONNECTION, 0, <<>>))

\* The catch of #get_transporter around the existing record: a warning is
\* logged, then the record is closed and replaced.
verify_existing_failed(w, c) ==
  IF logger_throws("warn") THEN raise(w, c, LoggerError)
  ELSE close_transporter(w, c)

\* The verify race of the existing record has ended with r.
verify_existing_done(w, c, r) ==
  LET id == w.calls[c].info IN
  IF r = "true"
  THEN IF should_refresh_transporter(w.infos[id], w.transporters[id].is_idle, now)
       THEN IF logger_throws("info") THEN verify_existing_failed(w, c)
            ELSE close_transporter(w, c)
       ELSE dispatch(w, c, id)
  ELSE verify_existing_failed(w, c)

\* Variant in which a close that failed or timed out ends the call.
close_existing_done_failure_raises(w, c, r) ==
  IF r # "resolved"
  THEN [raise(w, c, EmailError("Transporter close timeout", EMAIL_ERROR_CODES.TRANSPORT, 0, <<>>))
          EXCEPT !.calls[c].close_result = r]
  ELSE delete_and_create(w, c)

\* The close race of the existing record has ended with r: a failed close is
\* logged as a warning; the entry is deleted and a new connection created.
close_existing_done(w, c, r) ==
  IF r # "resolved" /\ logger_throws("warn") THEN raise(w, c, LoggerError)
  ELSE delete_and_create(w, c)

\* Variant that caches and uses the new connection whatever its verify did.
verify_new_done_unverified(w, c, r) ==
  dispatch([w EXCEPT !.cache = w.calls[c].info], c, w.calls[c].info)

\* The verify race of the new connection has ended with r: a rejection or the
\* timer raises, anything else caches the record and returns the connection.
verify_new_done(w, c, r) ==
  LET id == w.calls[c].info IN
  IF r \in {"rejected", "timeout"}
  THEN [raise(w, c, transporter_error(r)) EXCEPT !.calls[c].verify_result = r]
  ELSE dispatch([w EXCEPT !.cache = id], c, id)

\* #get_transporter up to its first await.
get_transporter(w, c) ==
  IF w.cache # NoId
  THEN [w EXCEPT !.calls[c].pc = "verify_existing", !.calls[c].info = w.cache,
                 !.calls[c].verify_result = "none"]
  ELSE create_transporter(w, c)

\* One turn of the while loop of send_mail up to its first await.
iteration(w, c) ==
  LET invalid == validate_payload(w.calls[c].payload) IN
  IF invalid # ""
  THEN raise(w, c, EmailError(invalid, EMAIL_ERROR_CODES.VALIDATION, 0, <<>>))
  ELSE get_transporter(w, c)

\* destroy() up to its await: for the cache entry, #close_transporter (skipped
\* for a record already closing, whose deletion then follows at once).
destroy_begin(w) ==
  LET id == w.cache
      v == [w EXCEPT !.destroying.count = @ + 1]
  IN
  IF id = NoId THEN [v EXCEPT !.destroying.pc = "done", !.destroying.target = NoId]
  ELSE IF w.infos[id].closing
       THEN [close_called(v, id) EXCEPT !.cache = NoId, !.destroying.pc = "done",
                                        !.destroying.target = id]
       ELSE [close_called(v, id) EXCEPT !.destroying.pc = "closing",
                                        !.destroying.info = id,
                                        !.destroying.target = id]

\* Variant of the end of destroy() that leaves the entry in the cache.
destroy_close_done_keeps_entry(w, r) ==
  [w EXCEPT !.destroying.pc = "done",
            !.destroying.info = NoId,
            !.destroying.close_result = r]

\* Variant of the end of destroy() that deletes the entry only after a close
\* that resolved.
destroy_close_done_unless_failed(w, r) ==
  [w EXCEPT !.cache = IF r = "resolved" THEN NoId ELSE @,
            !.destroying.pc = "done",
            !.destroying.info = NoId,
            !.destroying.close_result = r]

\* The close race awaited by destroy() ends, a failed close with a logged
\* warning: the entry of the key is deleted and destroy() returns.
destroy_close_done(w, r) ==
  [w EXCEPT !.cache = IF r # "resolved" /\ logger_throws("warn") THEN @ ELSE NoId,
            !.destroying.pc = "done",
            !.destroying.info = NoId,
            !.destroying.close_result = r]

\* Variant of the callback that closes the cache entry whatever its state.
sweep_begin_every_entry(w, t) ==
  LET id == w.cache IN
  IF id = NoId THEN w
  ELSE IF w.infos[id].closing THEN [close_called(w, id) EXCEPT !.cache = NoId]
  ELSE [close_called(w, id) EXCEPT !.sweeping.pc = "closing", !.sweeping.info = id]

\* The callback of the cleanup interval at time t, up to its await: a cache
\* entry that meets the refresh predicate is closed (a record already closing
\* skipped, its deletion then following at once).
sweep_begin(w, t) ==
  LET id == w.cache IN
  IF id = NoId THEN w
  ELSE IF ~should_refresh_transporter(w.infos[id], w.transporters[id].is_idle, t) THEN w
  ELSE IF logger_throws("info") THEN w
  ELSE IF w.infos[id].closing THEN [close_called(w, id) EXCEPT !.cache = NoId]
  ELSE [close_called(w, id) EXCEPT !.sweeping.pc = "closing", !.sweeping.info = id]

\* The close race awaited by the callback ends, a failed close with a logged
\* warning: the entry of the key is deleted.
sweep_close_done(w, r) ==
  [w EXCEPT !.cache = IF r # "resolved" /\ logger_throws("warn") THEN @ ELSE NoId,
            !.sweeping = NoSweep]

\* Variant of #update_transporter_metrics that never resets the failure count.
update_transporter_metrics_no_reset(w, success) ==
  LET info == w.cache IN
  IF info = NoId THEN w
  ELSE [w EXCEPT !.infos[info].email_count = @ + 1,
                 !.infos[info].last_used = now,
                 !.infos[info].consecutive_failures = IF success THEN @ ELSE @ + 1]

\* #update_transporter_metrics(success)
update_transporter_metrics(w, success) ==
  LET info == w.cache IN
  IF info = NoId THEN w
  ELSE [w EXCEPT !.infos[info].email_count = @ + 1,
                 !.infos[info].last_used = now,
                 !.infos[info].consecutive_failures = IF success THEN 0 ELSE @ + 1]

\* What the connection itself went through: its run of failed dispatches.
record_dispatch(w, id, success) ==
  [w EXCEPT !.transporters[id].fail_streak = IF success THEN 0 ELSE @ + 1]

\* The inner catch of send_mail, error being the message of what was thrown
\* inside the inner try: the metrics count a failure (with a warning at the
\* third in a row), then the error is retried after a logged warning and a
\* sleep, or it ends the call.
dispatch_failed(w, c, message) ==
  LET attempt == w.calls[c].attempt
      w1 == [update_transporter_metrics(w, FALSE)
               EXCEPT !.calls[c].error = message,
                      !.calls[c].errors_seen = @ \cup {message},
                      !.calls[c].failure =
                        IF message = LoggerMessage THEN @ ELSE send_error(attempt, message)]
      marked == /\ w1.cache # NoId
                /\ w1.infos[w1.cache].consecutive_failures >= max_consecutive_failures
  IN IF marked /\ logger_throws("warn") THEN raise(w1, c, LoggerError)
     ELSE IF should_retry(message, attempt)
          THEN IF logger_throws("warn") THEN raise(w1, c, LoggerError)
               ELSE [w1 EXCEPT !.calls[c].pc = "sleeping",
                               !.calls[c].slept = Append(@, retry_delay_ms(attempt))]
          ELSE terminal_failure(w1, c, attempt, message)

\* transporter.sendMail has resolved: the success is logged at level info
\* inside the inner try, then the metrics count a success and the call returns.
dispatch_resolved(w, c) ==
  IF logger_throws_message("info", SentMessage)
  THEN dispatch_failed([w EXCEPT !.calls[c].delivered = @ + 1], c, LoggerMessage)
  ELSE [update_transporter_metrics(w, TRUE)
          EXCEPT !.calls[c].pc = "done", !.calls[c].result = OkResult,
                 !.calls[c].delivered = @ + 1,
                 !.calls[c].transporter = NoId,
                 !.calls[c].verify_result = "none",
                 !.calls[c].error = <<>>]

\* Variant of the retry that dispatches again on the connection it holds.
sleep_done_same_transporter(w, c) ==
  dispatch([w EXCEPT !.calls[c].attempt = @ + 1,
                     !.calls[c].error = <<>>,
                     !.calls[c].failure = NoResult], c, w.calls[c].transporter)

\* The back-off sleep has ended: attempt++ and the next turn of the loop.
sleep_done(w, c) ==
  iteration([w EXCEPT !.calls[c].attempt = @ + 1,
                      !.calls[c].transporter = NoId,
                      !.calls[c].error = <<>>,
                      !.calls[c].failure = NoResult], c)

\* ---------------------------------------------------------------- actions
\* The state in which no send_mail call has begun.
NoSend ==
  /\ cache = NoId
  /\ infos = [i \in Ids |-> NoInfo]
  /\ transporters = [i \in Ids |-> NoTransporter]
  /\ next_id = 1
  /\ now = 0
  /\ calls = [c \in Calls |-> IdleCall]
  /\ destroying = NoDestroy
  /\ sweeping = NoSweep
  /\ calls_started = 0

\* A mailer constructed over an unauthenticated SMTP configuration.
Init ==
  /\ config = BasicSmtpConfig
  /\ rate_limit = NoOption
  /\ logger_throws_on = {}
  /\ construction = constructor_result(config)
  /\ cleanup_interval = start_cleanup_interval(config)
  /\ \E given \in BOOLEAN : \E option \in RetryOptions :
       /\ retry_given = given
       /\ retry = constructor_retry(given, option)
       /\ retry_enabled = constructor_retry_enabled(given, option)
  /\ NoSend

\* send_mail(payload): entry and the first turn of the loop.
send_mail(c, payload) ==
  /\ calls[c].pc \in {"idle", "done"}
  /\ Commit(iteration([World EXCEPT !.calls[c] =
                         [IdleCall EXCEPT !.payload = payload, !.attempt = 1]], c))
  /\ UNCHANGED <<setup, cleanup_interval, now>>

\* The race of existing.transporter.verify() against the verify timer ends.
VerifyExistingDone(c, r) ==
  /\ calls[c].pc = "verify_existing"
  /\ Commit(verify_existing_done([World EXCEPT !.calls[c].verify_result = r], c, r))
  /\ UNCHANGED <<setup, cleanup_interval, now, calls_started>>

\* The race of existing.transporter.close() against the close timer ends;
\* whatever the outcome, the entry is deleted and a new connection created.
CloseExistingDone(c, r) ==
  /\ calls[c].pc = "close_existing"
  /\ r \in CloseOutcomes
  /\ Commit(close_existing_done([World EXCEPT !.calls[c].close_result = r], c, r))
  /\ UNCHANGED <<setup, cleanup_interval, now, calls_started>>

\* The race of the new transporter's verify() against the verify timer ends.
VerifyNewDone(c, r) ==
  /\ calls[c].pc = "verify_new"
  /\ Commit(verify_new_done([World EXCEPT !.calls[c].verify_result = r], c, r))
  /\ UNCHANGED <<setup, cleanup_interval, now, calls_started>>

\* transporter.sendMail resolves.
DispatchResolved(c) ==
  /\ calls[c].pc = "dispatching"
  /\ Commit(dispatch_resolved(record_dispatch(World, calls[c].transporter, TRUE), c))
  /\ UNCHANGED <<setup, cleanup_interval, now, calls_started>>

\* transporter.sendMail rejects with an error of the given message; only a
\* connection configured with a rate limit reports that limit exceeded.
DispatchRejected(c, message) ==
  /\ calls[c].pc = "dispatching"
  /\ message = RateLimitError =>
       "rateLimit" \in DOMAIN transporters[calls[c].transporter].descriptor
  /\ Commit(dispatch_failed(record_dispatch(World, calls[c].transporter, FALSE), c, message))
  /\ UNCHANGED <<setup, cleanup_interval, now, calls_started>>

\* The back-off sleep ends: attempt++ and the next turn of the loop.
SleepDone(c) ==
  /\ calls[c].pc = "sleeping"
  /\ Commit(sleep_done(World, c))
  /\ UNCHANGED <<setup, cleanup_interval, now, calls_started>>

\* Time passes.
Tick ==
  /\ now + ClockStep <= MaxTime
  /\ now' = now + ClockStep
  /\ UNCHANGED <<setup, cleanup_interval, cache, infos, transporters, next_id, calls, destroying, sweeping, calls_started>>

\* The cached connection becomes busy or idle again (what isIdle() reports).
SetIdle ==
  /\ cache # NoId
  /\ transporters' = [transporters EXCEPT ![cache].is_idle = ~@]
  /\ UNCHANGED <<setup, cleanup_interval, cache, infos, next_id, now, calls, destroying, sweeping, calls_started>>

\* ---------------------------------------------------------- specifications
NoCallInFlight == \A d \in Calls : calls[d].pc \in {"idle", "done"}

\* A caller that issues its send_mail calls one after the other.
StartCall(c) ==
  /\ calls_started < MaxCalls
  /\ NoCallInFlight
  /\ \E payload \in Payloads : send_mail(c, payload)
  /\ calls_started' = calls_started + 1

Next ==
  \/ \E c \in SeqCalls : StartCall(c)
  \/ \E c \in Calls : \E r \in VerifyOutcomes : VerifyExistingDone(c, r)
  \/ \E c \in Calls : \E r \in CloseOutcomes : CloseExistingDone(c, r)
  \/ \E c \in Calls : \E r \in VerifyOutcomes : VerifyNewDone(c, r)
  \/ \E c \in Calls : DispatchResolved(c)
  \/ \E c \in Calls : \E message \in SendErrors : DispatchRejected(c, message)
  \/ \E c \in Calls : SleepDone(c)
  \/ Tick
  \/ SetIdle

Spec == Init /\ [][Next]_vars

\* Construction and first use: any configuration and rate_limit option, no
\* retry option, a few sends one after the other, the clock standing still.
InitConfig ==
  /\ config \in Configs
  /\ rate_limit \in RateLimitOptions
  /\ logger_throws_on = {}
  /\ construction = NoResult
  /\ cleanup_interval = FALSE
  /\ retry_given = FALSE
  /\ retry = NoOption
  /\ retry_enabled = FALSE
  /\ NoSend

\* new DualMailer(config, options)
Construct ==
  /\ construction.status = "none"
  /\ construction' = constructor_result(config)
  /\ IF constructor_result(config).status = "ok"
     THEN /\ retry' = constructor_retry(retry_given, retry)
          /\ retry_enabled' = constructor_retry_enabled(retry_given, retry)
          /\ cleanup_interval' = start_cleanup_interval(config)
     ELSE UNCHANGED <<retry, retry_enabled, cleanup_interval>>
  /\ UNCHANGED <<config, rate_limit, retry_given, logger_throws_on, cache, infos,
                 transporters, next_id, now, calls, destroying, sweeping, calls_started>>

StartConfig(c) ==
  /\ construction.status = "ok"
  /\ calls_started < MaxConfigCalls
  /\ NoCallInFlight
  /\ send_mail(c, FullPayload)
  /\ calls_started' = calls_started + 1

NextConfig ==
  \/ Construct
  \/ \E c \in SeqCalls : StartConfig(c)
  \/ \E c \in Calls : \E r \in VerifyOutcomes : VerifyExistingDone(c, r)
  \/ \E c \in Calls : \E r \in CloseOutcomes : CloseExistingDone(c, r)
  \/ \E c \in Calls : \E r \in VerifyOutcomes : VerifyNewDone(c, r)
  \/ \E c \in Calls : DispatchResolved(c)
  \/ \E c \in Calls : \E message \in SendErrors : DispatchRejected(c, message)

SpecConfig == InitConfig /\ [][NextConfig]_vars

\* The life of a constructed mailer up to destroy(): authenticated SMTP or
\* Mailgun, in development mode or not, with or without a retry option, a
\* few sends one after the other, destroy() at any moment, the clock
\* standing still.
LifeConfigs ==
  {cfg \in Configs :
     /\ validate_config(cfg) = ""
     /\ cfg.host # cfg.mailgun_api_key
     /\ cfg.user = cfg.host}

LifeRetryOptions ==
  {option \in RetryOptions :
     /\ Get(option, "max_retries", 1) = 1
     /\ Get(option, "maxRetries", 1) = 1
     /\ Len(Get(option, "retryable_errors", <<1>>)) > 0
     /\ Len(Get(option, "retryableErrors", <<1>>)) > 0}

LifePayloads == {FullPayload, [FullPayload EXCEPT !.title = FALSE]}

InitLife ==
  /\ config \in LifeConfigs
  /\ rate_limit = NoOption
  /\ logger_throws_on = {}
  /\ construction = constructor_result(config)
  /\ cleanup_interval = start_cleanup_interval(config)
  /\ \E given \in BOOLEAN : \E option \in LifeRetryOptions :
       /\ retry_given = given
       /\ retry = constructor_retry(given, option)
       /\ retry_enabled = constructor_retry_enabled(given, option)
  /\ NoSend

\* destroy(): the interval is cleared and the cache entry closed.
destroy ==
  /\ destroying.pc = "idle"
  /\ cleanup_interval' = FALSE
  /\ Commit(destroy_begin(World))
  /\ UNCHANGED <<setup, now, calls_started>>

DestroyCloseDone(r) ==
  /\ destroying.pc = "closing"
  /\ Commit(destroy_close_done(World, r))
  /\ UNCHANGED <<setup, cleanup_interval, now, calls_started>>

StartLife(c) ==
  /\ calls_started < MaxLifeCalls
  /\ NoCallInFlight
  /\ \E payload \in LifePayloads : send_mail(c, payload)
  /\ calls_started' = calls_started + 1

NextLife ==
  \/ \E c \in SeqCalls : StartLife(c)
  \/ \E c \in Calls : \E r \in VerifyOutcomes : VerifyExistingDone(c, r)
  \/ \E c \in Calls : \E r \in CloseOutcomes : CloseExistingDone(c, r)
  \/ \E c \in Calls : \E r \in VerifyOutcomes : VerifyNewDone(c, r)
  \/ \E c \in Calls : DispatchResolved(c)
  \/ \E c \in Calls : \E message \in SendErrors : DispatchRejected(c, message)
  \/ \E c \in Calls : SleepDone(c)
  \/ destroy
  \/ \E r \in CloseOutcomes : DestroyCloseDone(r)

SpecLife == InitLife /\ [][NextLife]_vars

\* The life of a mailer whose options.logger throws at some levels, or at the
\* message that reports a sent email (any set of them, the same through the
\* run), instead of returning.
InitLogger ==
  /\ config \in LifeConfigs
  /\ rate_limit = NoOption
  /\ logger_throws_on \in SUBSET LogThrowPoints
  /\ construction = constructor_result(config)
  /\ cleanup_interval = start_cleanup_interval(config)
  /\ \E given \in BOOLEAN : \E option \in LifeRetryOptions :
       /\ retry_given = given
       /\ retry = constructor_retry(given, option)
       /\ retry_enabled = constructor_retry_enabled(given, option)
  /\ NoSend

SpecLogger == InitLogger /\ [][NextLife]_vars

\* The cleanup interval fires, cleanup_interval_ms after the last time (a close
\* race lasts seconds: the callback before has returned).
CleanupTimer ==
  /\ sweeping.pc = "idle"
  /\ now + cleanup_interval_ms <= MaxSweepTime
  /\ now' = now + cleanup_interval_ms
  /\ IF cleanup_interval
     THEN Commit(sweep_begin(World, now + cleanup_interval_ms))
     ELSE UNCHANGED <<cache, infos, transporters, next_id, calls, destroying, sweeping>>
  /\ UNCHANGED <<setup, cleanup_interval, calls_started>>

SweepCloseDone(r) ==
  /\ sweeping.pc = "closing"
  /\ Commit(sweep_close_done(World, r))
  /\ UNCHANGED <<setup, cleanup_interval, now, calls_started>>

\* A mailer in production or development mode, retry not configured: sends
\* one after the other while the cleanup interval fires every five minutes,
\* destroy() at any moment, the connection busy or idle.
InitSweep ==
  /\ config \in {BasicSmtpConfig, [BasicSmtpConfig EXCEPT !.is_dev = TRUE]}
  /\ rate_limit = NoOption
  /\ logger_throws_on = {}
  /\ construction = constructor_result(config)
  /\ cleanup_interval = start_cleanup_interval(config)
  /\ retry_given = FALSE
  /\ retry = constructor_retry(FALSE, NoOption)
  /\ retry_enabled = constructor_retry_enabled(FALSE, NoOption)
  /\ NoSend

StartSweep(c) ==
  /\ calls_started < MaxSweepCalls
  /\ next_id <= MaxTransporters
  /\ calls[c].pc \in {"idle", "done"}
  /\ send_mail(c, FullPayload)
  /\ calls_started' = calls_started + 1

NextSweep ==
  \/ \E c \in SeqCalls : StartSweep(c)
  \/ \E c \in Calls : \E r \in VerifyOutcomes : VerifyExistingDone(c, r)
  \/ \E c \in Calls : \E r \in CloseOutcomes : CloseExistingDone(c, r)
  \/ \E c \in Calls : \E r \in VerifyOutcomes : VerifyNewDone(c, r)
  \/ \E c \in Calls : DispatchResolved(c)
  \/ \E c \in Calls : DispatchRejected(c, SendFailed)
  \/ CleanupTimer
  \/ \E r \in CloseOutcomes : SweepCloseDone(r)
  \/ SetIdle
  \/ destroy
  \/ \E r \in CloseOutcomes : DestroyCloseDone(r)

SpecSweep == InitSweep /\ [][NextSweep]_vars

\* The same mailer with its timers: the timer of a verify or close race that
\* is still awaited fires.
FairTimers ==
  /\ \A c \in Calls : WF_vars(VerifyExistingDone(c, "timeout"))
  /\ \A c \in Calls : WF_vars(CloseExistingDone(c, "timeout"))
  /\ \A c \in Calls : WF_vars(VerifyNewDone(c, "timeout"))
  /\ WF_vars(SweepCloseDone("timeout"))
  /\ WF_vars(DestroyCloseDone("timeout"))

\* Variant of the construction that opens the connection of the key at once.
InitTimers_eager ==
  /\ config = BasicSmtpConfig
  /\ rate_limit = NoOption
  /\ logger_throws_on = {}
  /\ construction = constructor_result(config)
  /\ cleanup_interval = start_cleanup_interval(config)
  /\ retry_given = FALSE
  /\ retry = constructor_retry(FALSE, NoOption)
  /\ retry_enabled = constructor_retry_enabled(FALSE, NoOption)
  /\ now = MaxSweepTime - cleanup_interval_ms
  /\ cache = 1
  /\ infos = [i \in Ids |->
               IF i = 1
               THEN [created_at |-> now, email_count |-> 0, last_used |-> now,
                     consecutive_failures |-> 0, closing |-> FALSE, live |-> TRUE]
               ELSE NoInfo]
  /\ transporters = [i \in Ids |->
                      IF i = 1
                      THEN [NoTransporter EXCEPT
                              !.created = TRUE,
                              !.descriptor = get_transport_config(config, rate_limit)]
                      ELSE NoTransporter]
  /\ next_id = 2
  /\ calls = [c \in Calls |-> IdleCall]
  /\ destroying = NoDestroy
  /\ sweeping = NoSweep
  /\ calls_started = 0

\* A production mailer constructed one period of the cleanup interval before
\* the end of the time observed.
InitTimers ==
  /\ config = BasicSmtpConfig
  /\ rate_limit = NoOption
  /\ logger_throws_on = {}
  /\ construction = constructor_result(config)
  /\ cleanup_interval = start_cleanup_interval(config)
  /\ retry_given = FALSE
  /\ retry = constructor_retry(FALSE, NoOption)
  /\ retry_enabled = constructor_retry_enabled(FALSE, NoOption)
  /\ cache = NoId
  /\ infos = [i \in Ids |-> NoInfo]
  /\ transporters = [i \in Ids |-> NoTransporter]
  /\ next_id = 1
  /\ now = MaxSweepTime - cleanup_interval_ms
  /\ calls = [c \in Calls |-> IdleCall]
  /\ destroying = NoDestroy
  /\ sweeping = NoSweep
  /\ calls_started = 0

SpecTimers == InitTimers /\ [][NextSweep]_vars /\ FairTimers

\* The same production mailer under overlapping sends: a second send_mail may
\* begin while the first is in flight, beside the cleanup callback and destroy().
StartRace(c) ==
  /\ calls_started < MaxSweepCalls
  /\ next_id + Cardinality({d \in Calls : calls[d].pc \in {"verify_existing", "close_existing"}})
       <= MaxTransporters
  /\ calls[c].pc \in {"idle", "done"}
  /\ send_mail(c, FullPayload)
  /\ calls_started' = calls_started + 1

NextRace ==
  \/ \E c \in Calls : StartRace(c)
  \/ \E c \in Calls : \E r \in VerifyOutcomes : VerifyExistingDone(c, r)
  \/ \E c \in Calls : \E r \in CloseOutcomes : CloseExistingDone(c, r)
  \/ \E c \in Calls : \E r \in VerifyOutcomes : VerifyNewDone(c, r)
  \/ \E c \in Calls : DispatchResolved(c)
  \/ \E c \in Calls : DispatchRejected(c, SendFailed)
  \/ CleanupTimer
  \/ \E r \in CloseOutcomes : SweepCloseDone(r)
  \/ SetIdle
  \/ destroy
  \/ \E r \in CloseOutcomes : DestroyCloseDone(r)

SpecRace == InitTimers /\ [][NextRace]_vars

\* An application that shuts down: it calls destroy() at any moment, its sends
\* still in flight or not, and starts no send afterwards.
StartBeforeShutdown(c) ==
  /\ destroying.pc = "idle"
  /\ StartRace(c)

NextShutdown ==
  \/ \E c \in Calls : StartBeforeShutdown(c)
  \/ \E c \in Calls : \E r \in VerifyOutcomes : VerifyExistingDone(c, r)
  \/ \E c \in Calls : \E r \in CloseOutcomes : CloseExistingDone(c, r)
  \/ \E c \in Calls : \E r \in VerifyOutcomes : VerifyNewDone(c, r)
  \/ \E c \in Calls : DispatchResolved(c)
  \/ \E c \in Calls : DispatchRejected(c, SendFailed)
  \/ CleanupTimer
  \/ \E r \in CloseOutcomes : SweepCloseDone(r)
  \/ SetIdle
  \/ destroy
  \/ \E r \in CloseOutcomes : DestroyCloseDone(r)

SpecShutdown == InitTimers /\ [][NextShutdown]_vars

\* A caller that awaits its sends, then calls destroy() and, once that has
\* returned, destroy() again (the tests' afterEach), the cleanup interval
\* firing all along.
MaxDestroys == 2

DestroyAgain ==
  /\ destroying.pc = "done"
  /\ destroying.count < MaxDestroys
  /\ cleanup_interval' = FALSE
  /\ Commit(destroy_begin(World))
  /\ UNCHANGED <<setup, now, calls_started>>

StartBeforeDestroy(c) ==
  /\ destroying.pc = "idle"
  /\ StartSweep(c)

NextDestroy ==
  \/ \E c \in SeqCalls : StartBeforeDestroy(c)
  \/ \E c \in Calls : \E r \in VerifyOutcomes : VerifyExistingDone(c, r)
  \/ \E c \in Calls : \E r \in CloseOutcomes : CloseExistingDone(c, r)
  \/ \E c \in Calls : \E r \in VerifyOutcomes : VerifyNewDone(c, r)
  \/ \E c \in Calls : DispatchResolved(c)
  \/ \E c \in Calls : DispatchRejected(c, SendFailed)
  \/ CleanupTimer
  \/ \E r \in CloseOutcomes : SweepCloseDone(r)
  \/ SetIdle
  \/ NoCallInFlight /\ destroy
  \/ NoCallInFlight /\ DestroyAgain
  \/ \E r \in CloseOutcomes : DestroyCloseDone(r)

SpecDestroy == InitSweep /\ [][NextDestroy]_vars

\* ---------------------------------------- the revision before retry support
\* src/src/index.js: no retry, no failure count, no timers around verify and
\* close, no verify of a new connection; a failed dispatch sets email_count to
\* the per-transporter maximum.  The logging callback returns.

\* #should_refresh_transporter(info) at time t, isIdle() answering is_idle.
old_should_refresh_transporter(info, is_idle, t) ==
  \/ t - info.created_at > max_transporter_age
  \/ info.email_count > max_emails_per_transporter
  \/ t - info.last_used > 15
  \/ ~is_idle

\* The outer catch of send_mail: the error is logged and thrown.
old_raise(w, c, err) ==
  [w EXCEPT !.calls[c].pc = "done", !.calls[c].result = err,
            !.calls[c].info = NoId, !.calls[c].transporter = NoId,
            !.calls[c].verify_result = "none", !.calls[c].close_result = "none"]

\* transporter.sendMail(...) is called on connection id.
old_dispatch(w, c, id) ==
  [w EXCEPT !.calls[c].pc = "dispatching", !.calls[c].transporter = id,
            !.calls[c].info = NoId, !.calls[c].dispatches = @ + 1,
            !.calls[c].close_result = "none"]

\* #get_transporter, creation: createTransport, the new record cached at once
\* and its connection returned.
old_create_transporter(w, c) ==
  LET descriptor == get_transport_config(config, rate_limit) IN
  IF descriptor.transport = "error" THEN old_raise(w, c, transporter_error("config"))
  ELSE IF w.next_id > MaxTransporters THEN [w EXCEPT !.blocked = TRUE]
  ELSE LET id == w.next_id IN
       old_dispatch(
         [w EXCEPT !.infos[id] =
                     [created_at |-> now, email_count |-> 0, last_used |-> now,
                      consecutive_failures |-> 0, closing |-> FALSE, live |-> TRUE],
                   !.transporters[id] =
                     [NoTransporter EXCEPT !.created = TRUE, !.descriptor = descriptor],
                   !.next_id = id + 1,
                   !.cache = id], c, id)

\* #close_transporter(existing) up to its await: close() is called.
old_close_transporter(w, c) ==
  LET id == w.calls[c].info IN
  [w EXCEPT !.transporters[id].close_calls = @ + 1,
            !.calls[c].pc = "close_existing"]

\* #get_transporter up to its first await.
old_get_transporter(w, c) ==
  IF w.cache # NoId
  THEN [w EXCEPT !.calls[c].pc = "verify_existing", !.calls[c].info = w.cache,
                 !.calls[c].verify_result = "none"]
  ELSE old_create_transporter(w, c)

\* existing.transporter.verify() has settled with r: its value is not looked at.
old_verify_existing_done(w, c, r) ==
  LET id == w.calls[c].info IN
  IF r # "rejected"
     /\ ~old_should_refresh_transporter(w.infos[id], w.transporters[id].is_idle, now)
  THEN old_dispatch(w, c, id)
  ELSE old_close_transporter(w, c)

\* existing.transporter.close() has settled: the entry is deleted and a new
\* connection created.
old_close_existing_done(w, c, r) == old_create_transporter([w EXCEPT !.cache = NoId], c)

\* sendMail has resolved: the record the key holds counts one more email.
old_dispatch_resolved(w, c) ==
  LET info == w.cache
      w1 == IF info = NoId THEN w
            ELSE [w EXCEPT !.infos[info].email_count = @ + 1,
                           !.infos[info].last_used = now]
  IN [w1 EXCEPT !.calls[c].pc = "done", !.calls[c].result = OkResult,
                !.calls[c].delivered = @ + 1,
                !.calls[c].transporter = NoId, !.calls[c].verify_result = "none",
                !.calls[c].error = <<>>]

\* sendMail has rejected: the record the key holds is given the maximum count
\* and the send error is thrown.
old_dispatch_failed(w, c, message) ==
  LET info == w.cache
      w1 == IF info = NoId THEN w
            ELSE [w EXCEPT !.infos[info].email_count = max_emails_per_transporter]
  IN old_raise([w1 EXCEPT !.calls[c].error = message,
                          !.calls[c].errors_seen = @ \cup {message},
                          !.calls[c].dev_log = config.is_dev], c,
               EmailError("Failed to send email", EMAIL_ERROR_CODES.SEND, 0, message))

\* send_mail(payload) up to its first await.
OldSendMail(c) ==
  /\ calls_started < MaxCalls
  /\ NoCallInFlight
  /\ \E payload \in LifePayloads :
       LET w == [World EXCEPT !.calls[c] = [IdleCall EXCEPT !.payload = payload, !.attempt = 1]]
           invalid == validate_payload(payload)
       IN IF invalid # ""
          THEN Commit(old_raise(w, c, EmailError(invalid, EMAIL_ERROR_CODES.VALIDATION, 0, <<>>)))
          ELSE Commit(old_get_transporter(w, c))
  /\ calls_started' = calls_started + 1
  /\ UNCHANGED <<setup, cleanup_interval, now>>

OldVerifyExistingDone(c, r) ==
  /\ calls[c].pc = "verify_existing"
  /\ Commit(old_verify_existing_done([World EXCEPT !.calls[c].verify_result = r], c, r))
  /\ UNCHANGED <<setup, cleanup_interval, now, calls_started>>

OldCloseExistingDone(c, r) ==
  /\ calls[c].pc = "close_existing"
  /\ Commit(old_close_existing_done([World EXCEPT !.calls[c].close_result = r], c, r))
  /\ UNCHANGED <<setup, cleanup_interval, now, calls_started>>

OldDispatchResolved(c) ==
  /\ calls[c].pc = "dispatching"
  /\ Commit(old_dispatch_resolved(record_dispatch(World, calls[c].transporter, TRUE), c))
  /\ UNCHANGED <<setup, cleanup_interval, now, calls_started>>

OldDispatchRejected(c, message) ==
  /\ calls[c].pc = "dispatching"
  /\ Commit(old_dispatch_failed(record_dispatch(World, calls[c].transporter, FALSE), c, message))
  /\ UNCHANGED <<setup, cleanup_interval, now, calls_started>>

\* A mailer of that revision over an unauthenticated SMTP configuration, in
\* production or development mode, its sends one after the other.
InitOld ==
  /\ config \in {BasicSmtpConfig, [BasicSmtpConfig EXCEPT !.is_dev = TRUE]}
  /\ rate_limit = NoOption
  /\ logger_throws_on = {}
  /\ construction = constructor_result(config)
  /\ cleanup_interval = start_cleanup_interval(config)
  /\ retry_given = FALSE
  /\ retry = NoOption
  /\ retry_enabled = FALSE
  /\ NoSend

NextOld ==
  \/ \E c \in SeqCalls : OldSendMail(c)
  \/ \E c \in Calls : \E r \in {"true", "false", "rejected"} : OldVerifyExistingDone(c, r)
  \/ \E c \in Calls : \E r \in {"resolved", "rejected"} : OldCloseExistingDone(c, r)
  \/ \E c \in Calls : OldDispatchResolved(c)
  \/ \E c \in Calls : OldDispatchRejected(c, SendFailed)
  \/ Tick
  \/ SetIdle

SpecOld == InitOld /\ [][NextOld]_vars

\* A long run of sends: retry not configured, the clock standing still, any
\* number of calls one after the other, so that the per-transporter email
\* ceiling is reached.
InitCount == Init /\ ~retry_enabled

StartCount(c) ==
  /\ NoCallInFlight
  /\ send_mail(c, FullPayload)
  /\ UNCHANGED calls_started

NextCount ==
  \/ \E c \in SeqCalls : StartCount(c)
  \/ \E c \in Calls : \E r \in VerifyOutcomes : VerifyExistingDone(c, r)
  \/ \E c \in Calls : \E r \in CloseOutcomes : CloseExistingDone(c, r)
  \/ \E c \in Calls : \E r \in VerifyOutcomes : VerifyNewDone(c, r)
  \/ \E c \in Calls : DispatchResolved(c)
  \/ \E c \in Calls : \E message \in SendErrors : DispatchRejected(c, message)

SpecCount == InitCount /\ [][NextCount]_vars

\* ------------------------------------------------------------------ claims
\* The step in which call c leaves the await of existing.transporter.verify().
VerifyExistingEnds(c) == calls[c].pc = "verify_existing" /\ calls'[c].pc # "verify_existing"

\* The step in which call c leaves the await of existing.transporter.close().
CloseExistingEnds(c) == calls[c].pc = "close_existing" /\ calls'[c].pc # "close_existing"

\* The step in which the dispatch of call c ends.
DispatchEnds(c) == calls[c].pc = "dispatching" /\ calls'[c].pc # "dispatching"

CloseCalls == [i \in Ids |-> transporters[i].close_calls]

\* The step reuses the cached connection: call c dispatches on it, nothing is
\* created, nothing closed, the cache keeps its entry.
Reuses(c) ==
  /\ calls'[c].pc = "dispatching"
  /\ calls'[c].transporter = calls[c].info
  /\ cache' = cache
  /\ next_id' = next_id
  /\ CloseCalls' = CloseCalls

\* The step starts the replacement of record id: close() is called on its connection.
StartsRefresh(c, id) ==
  /\ calls'[c].pc = "close_existing"
  /\ transporters'[id].close_calls = transporters[id].close_calls + 1
  /\ next_id' = next_id

\* The step evicts the record and creates a new connection with a fresh record.
EvictsAndCreates(c, id) ==
  /\ cache' # id
  /\ next_id' = next_id + 1
  /\ calls'[c].pc = "verify_new"
  /\ calls'[c].info = next_id
  /\ infos'[next_id].email_count = 0
  /\ infos'[next_id].consecutive_failures = 0

\* C1: when a send finds a cached transporter whose verify() succeeds and no
\* refresh condition holds (age <= 30 min, email_count <= 1000, idle <= 15 min,
\* isIdle() true, fewer than 3 consecutive failures), it dispatches on that
\* same transporter: createTransport is not called again, close is not called.
C1_ReuseWithoutRefresh ==
  [][\A c \in Calls :
       LET id == calls[c].info IN
       (/\ VerifyExistingEnds(c)
        /\ calls'[c].verify_result = "true"
        /\ now - infos[id].created_at <= 30
        /\ infos[id].email_count <= 1000
        /\ now - infos[id].last_used <= 15
        /\ transporters[id].is_idle
        /\ infos[id].consecutive_failures < 3)
       => Reuses(c)]_vars

\* The second of two successive calls dispatches on the one transporter ever
\* created, a full idle period after the first, with close never called.
C1_Witness ==
  \E c \in Calls :
    /\ calls[c].pc = "dispatching"
    /\ calls[c].verify_result = "true"
    /\ calls_started = 2
    /\ calls[c].transporter = 1
    /\ cache = 1
    /\ infos[1].email_count = 1
    /\ now - infos[1].last_used = 15
    /\ next_id = 2
    /\ \A i \in Ids : transporters[i].close_calls = 0

\* C2: in sequential sends, an acquire that finds email_count > 1000 on the
\* cached record closes it, and the completion of that close evicts the
\* record and creates a new transporter whose record starts at email_count 0;
\* while email_count <= 1000, verify() succeeds and no other refresh condition
\* holds, the acquire creates nothing and reuses the record.
C2_RefreshAfterMaxEmails ==
  [][\A c \in Calls :
       LET id == calls[c].info IN
       /\ (VerifyExistingEnds(c) /\ infos[id].email_count > 1000)
          => StartsRefresh(c, id)
       /\ CloseExistingEnds(c) => EvictsAndCreates(c, id)
       /\ (VerifyExistingEnds(c) /\ calls'[c].verify_result = "true"
             /\ infos[id].email_count <= 1000
             /\ now - infos[id].created_at <= 30
             /\ now - infos[id].last_used <= 15
             /\ transporters[id].is_idle
             /\ infos[id].consecutive_failures < 3)
          => Reuses(c)]_vars

\* The replacement of a record only because its count passed 1000 is under
\* way: its verify() succeeded and its close was called once.
C2_Witness ==
  \E c \in Calls :
    /\ calls[c].pc = "close_existing"
    /\ calls[c].verify_result = "true"
    /\ transporters[calls[c].info].is_idle
    /\ infos[calls[c].info].email_count = 1001
    /\ infos[calls[c].info].consecutive_failures = 0
    /\ transporters[calls[c].info].close_calls = 1

\* C3: after three failed dispatches in a row on the cached transporter, the
\* next acquire closes it, then evicts it and creates a new transporter; after
\* fewer than three in a row, with verify() succeeding and no other refresh
\* condition, the acquire reuses it.
C3_RefreshAfterThreeFailures ==
  [][\A c \in Calls :
       LET id == calls[c].info IN
       /\ (VerifyExistingEnds(c) /\ transporters[id].fail_streak >= 3)
          => StartsRefresh(c, id)
       /\ (CloseExistingEnds(c) /\ transporters[id].fail_streak >= 3)
          => EvictsAndCreates(c, id)
       /\ (VerifyExistingEnds(c) /\ calls'[c].verify_result = "true"
             /\ transporters[id].fail_streak < 3
             /\ now - infos[id].created_at <= 30
             /\ infos[id].email_count <= 1000
             /\ now - infos[id].last_used <= 15
             /\ transporters[id].is_idle)
          => Reuses(c)]_vars

\* Three calls without retry failed one after the other on transporter 1; the
\* fourth call, its verify() having succeeded, is closing it.
C3_Witness ==
  \E c \in Calls :
    /\ ~retry_given
    /\ calls_started = 4
    /\ calls[c].pc = "close_existing"
    /\ calls[c].info = 1
    /\ calls[c].verify_result = "true"
    /\ transporters[1].fail_streak = 3
    /\ transporters[1].is_idle
    /\ transporters[1].close_calls = 1
    /\ infos[1].email_count = 3
    /\ now = 0

\* C4: a failed dispatch adds one to the cached record's consecutive-failure
\* count and a successful one sets it to zero, so that the count is the
\* connection's current run of failed dispatches; a run interrupted by a
\* success before three does not make the next acquire create a transporter.
C4_FailureCountTracksRun ==
  /\ [](cache # NoId => infos[cache].consecutive_failures = transporters[cache].fail_streak)
  /\ [][\A c \in Calls :
          (DispatchEnds(c) /\ cache # NoId) =>
             /\ cache' = cache
             /\ infos'[cache].consecutive_failures =
                  IF calls'[c].result.status = "ok" THEN 0
                  ELSE infos[cache].consecutive_failures + 1]_vars

\* Fail, fail, success in three calls without retry; the fourth call
\* dispatches on the same, only, transporter.
C4_Witness ==
  \E c \in Calls :
    /\ ~retry_given
    /\ calls_started = 4
    /\ calls[c].pc = "dispatching"
    /\ calls[c].transporter = 1
    /\ next_id = 2
    /\ infos[1].email_count = 3
    /\ infos[1].consecutive_failures = 0
    /\ now = 0

\* The caller's retryable_errors list lets a failure of this message be retried.
CallerListAllows(message) ==
  \/ Len(retry.retryable_errors) = 0
  \/ \E i \in 1..Len(retry.retryable_errors) : Includes(message, retry.retryable_errors[i])

\* C5: with retry enabled with max_retries = M and a list matching every
\* failure, a call whose dispatch fails f <= M times is not given up: it
\* raises no send error while its failed dispatches number at most M, and a
\* normal return after f failures took exactly f + 1 dispatches.
C5_RetriesUntilSuccess ==
  \A c \in Calls :
    (/\ retry_given
     /\ "max_retries" \in DOMAIN retry
     /\ "retryable_errors" \in DOMAIN retry
     /\ calls[c].pc = "done"
     /\ \A m \in calls[c].errors_seen : CallerListAllows(m))
    => /\ calls[c].result.code = EMAIL_ERROR_CODES.SEND
            => calls[c].dispatches > retry.max_retries
       /\ calls[c].result.status = "ok"
            => calls[c].dispatches = Len(calls[c].slept) + 1

\* C6: without a retry option, a call whose dispatch fails makes exactly one
\* dispatch attempt, never sleeps, and raises EMAIL_SEND_ERROR stating
\* "1 attempt(s)".
C6_NoRetryByDefault ==
  \A c \in Calls :
    ~retry_given =>
      /\ calls[c].pc # "sleeping"
      /\ calls[c].slept = <<>>
      /\ calls[c].dispatches <= 1
      /\ (calls[c].pc = "done" /\ calls[c].error # <<>>) =>
           /\ calls[c].dispatches = 1
           /\ calls[c].result =
                [status |-> "error", code |-> "EMAIL_SEND_ERROR",
                 text |-> "Failed to send email after", attempts |-> 1,
                 cause |-> calls[c].error]

\* A call without retry option has ended on its one failed dispatch.
C6_Witness ==
  \E c \in Calls :
    /\ ~retry_given
    /\ calls[c].pc = "done"
    /\ calls[c].dispatches = 1
    /\ calls[c].error = TemporaryError
    /\ calls[c].result.code = "EMAIL_SEND_ERROR"

\* C7: with the caller's max_retries = M, failed attempt n is retried only if
\* n <= M, so a call never makes more than M + 1 dispatch attempts.
C7_AtMostMaxRetries ==
  \A c \in Calls :
    (retry_given /\ "max_retries" \in DOMAIN retry) =>
      /\ calls[c].dispatches <= retry.max_retries + 1
      /\ calls[c].pc = "sleeping" => calls[c].attempt <= retry.max_retries

\* C8: with a non-empty caller-supplied retryable_errors list, a failed
\* dispatch is retried only if its message contains one of the listed strings.
C8_OnlyListedErrorsRetried ==
  \A c \in Calls :
    (/\ retry_given
     /\ "retryable_errors" \in DOMAIN retry
     /\ Len(retry.retryable_errors) > 0
     /\ calls[c].pc = "sleeping")
    => \E i \in 1..Len(retry.retryable_errors) :
         Includes(calls[c].error, retry.retryable_errors[i])

\* C9: the delay slept before retry k is the caller's retry_delay * 2^(k-1).
C9_BackoffFromCallerDelay ==
  \A c \in Calls :
    (retry_given /\ "retry_delay" \in DOMAIN retry) =>
      \A k \in 1..Len(calls[c].slept) :
        calls[c].slept[k] = retry.retry_delay * 2^(k - 1)

\* C10: a call that ends on a failed dispatch that is not retried (any more)
\* raises an EMAIL_SEND_ERROR whose message states an attempt count equal to
\* the number of dispatch attempts the call performed.
C10_ErrorStatesAttempts ==
  \A c \in Calls :
    (calls[c].pc = "done" /\ calls[c].error # <<>>)
    => /\ calls[c].result.status = "error"
       /\ calls[c].result.code = "EMAIL_SEND_ERROR"
       /\ calls[c].result.text = "Failed to send email after"
       /\ calls[c].result.attempts = calls[c].dispatches
       /\ calls[c].result.cause = calls[c].error

\* A call with retry enabled has used up its retries: four failed dispatches,
\* three sleeps, and the error raised.
C10_Witness ==
  \E c \in Calls :
    /\ retry_given
    /\ calls[c].pc = "done"
    /\ calls[c].dispatches = 4
    /\ Len(calls[c].slept) = 3
    /\ calls[c].result.code = "EMAIL_SEND_ERROR"
    /\ calls[c].result.attempts = 4

\* The step in which a send_mail call is made on slot c.
SendMailBegins(c) ==
  /\ calls[c].pc \in {"idle", "done"}
  /\ calls'[c] # calls[c] \/ calls_started' # calls_started

\* The payload lacks to, subject, html, html.title or html.body.
Lacks(payload) ==
  ~payload.to \/ ~payload.subject \/ ~payload.html \/ ~payload.title \/ ~payload.body

\* C11: a send_mail call whose payload lacks to, subject, html, html.title or
\* html.body ends at once with an EmailError of code EMAIL_VALIDATION_ERROR:
\* it never waits on a verify, creates no transporter, dispatches nothing,
\* sleeps for no retry (retry enabled or not), and the cache, its record and
\* the connections are left as they were.
C11_InvalidPayloadRejected ==
  [][\A c \in Calls :
       (SendMailBegins(c) /\ Lacks(calls'[c].payload)) =>
          /\ calls'[c].pc = "done"
          /\ calls'[c].result.status = "error"
          /\ calls'[c].result.code = "EMAIL_VALIDATION_ERROR"
          /\ calls'[c].dispatches = 0
          /\ calls'[c].slept = <<>>
          /\ <<cache, infos, transporters, next_id>>' = <<cache, infos, transporters, next_id>>]_vars

\* With retry enabled and a transporter cached by an earlier call, a call
\* whose payload lacks only html.title has ended with the validation error.
C11_Witness ==
  \E c \in Calls :
    /\ retry_enabled
    /\ cache = 1
    /\ calls[c].pc = "done"
    /\ calls[c].payload = [FullPayload EXCEPT !.title = FALSE]
    /\ calls[c].result.code = "EMAIL_VALIDATION_ERROR"
    /\ calls[c].result.text = "HTML email requires both title and body"
    /\ calls[c].dispatches = 0

\* C12: destroy() calls close on the transporter it finds in the cache unless
\* that record is already being closed, so that when destroy() returns close
\* has been invoked exactly once on that transporter, however the close race
\* ended (resolved, rejected, timed out), and the cache is empty; close is
\* never invoked twice on a transporter.
C12_DestroyClosesAll ==
  /\ [](\A i \in Ids : transporters[i].close_calls <= 1)
  /\ [][((destroying.pc = "idle" /\ destroying'.pc # "idle") =>
           (/\ destroying'.target = cache
            /\ (cache # NoId => transporters'[cache].close_calls = 1)))
        /\ ((destroying.pc # "done" /\ destroying'.pc = "done") =>
              (/\ cache' = NoId
               /\ (destroying'.target # NoId =>
                     transporters'[destroying'.target].close_calls = 1)))]_vars

\* destroy() has returned after a close that timed out: the transporter it
\* found has had close called once and the cache is empty.
C12_Witness ==
  /\ destroying.pc = "done"
  /\ destroying.close_result = "timeout"
  /\ destroying.target = 1
  /\ transporters[1].close_calls = 1
  /\ cache = NoId
  /\ NoCallInFlight

\* The constructor call has ended by throwing an EMAIL_CONFIG_ERROR, and
\* nothing was started: no cleanup timer, no send.
ConstructionFailed ==
  /\ construction.status = "error"
  /\ construction.code = "EMAIL_CONFIG_ERROR"
  /\ ~cleanup_interval
  /\ calls_started = 0
  /\ next_id = 1

\* C13: once the constructor call has ended, it has thrown an
\* EMAIL_CONFIG_ERROR and started no cleanup timer for every configuration
\* with neither SMTP (host and port) nor Mailgun (api_key and domain) complete,
\* and for every configuration with host without port, port without host,
\* api_key without domain or domain without api_key, also when the other
\* backend is complete.
C13_IncompleteBackendRejected ==
  (/\ construction.status # "none"
   /\ \/ ~(config.host /\ config.port) /\ ~(config.mailgun_api_key /\ config.mailgun_domain)
      \/ config.host # config.port
      \/ config.mailgun_api_key # config.mailgun_domain)
  => ConstructionFailed

\* Mailgun is complete and the host is given without a port: construction failed.
C13_Witness ==
  /\ config.mailgun_api_key /\ config.mailgun_domain
  /\ config.host /\ ~config.port
  /\ ~config.user /\ ~config.password /\ ~config.is_dev
  /\ construction.status = "error"
  /\ construction.code = "EMAIL_CONFIG_ERROR"
  /\ construction.cause = <<"SMTP port is required when host is provided">>
  /\ ~cleanup_interval

C15_BackendChoice ==
  \A i \in Ids :
    transporters[i].created =>
      LET d == transporters[i].descriptor
          has_smtp == config.host /\ config.port
      IN /\ construction.status = "ok"
         /\ has_smtp => d.transport = "smtp"
         /\ ~has_smtp => d.transport = "mailgun"
         /\ d.transport = "smtp" => (("auth" \in DOMAIN d) <=> (config.user /\ config.password))
         /\ d.transport = "mailgun" => "auth" \notin DOMAIN d

\* Both backends are complete, with credentials: the send dispatches on an
\* SMTP transporter with an auth block.
C15_Witness ==
  \E c \in Calls :
    /\ config.host /\ config.port /\ config.mailgun_api_key /\ config.mailgun_domain
    /\ config.user /\ config.password
    /\ calls[c].pc = "dispatching"
    /\ transporters[calls[c].transporter].descriptor.transport = "smtp"
    /\ "auth" \in DOMAIN transporters[calls[c].transporter].descriptor

PoolKeys == {"pool", "maxConnections", "maxMessages", "rateDelta", "rateLimit"}

\* The configuration selects SMTP with credentials.
AuthenticatedSmtp == config.host /\ config.port /\ config.user /\ config.password

\* C16: the pooling parameters of every connection created for an
\* authenticated SMTP configuration are the values of options.rate_limit,
\* and 5 / 200 / 1000 / 5 for the values the caller did not supply.
C16_PoolFromRateLimitOption ==
  \A i \in Ids :
    (transporters[i].created /\ AuthenticatedSmtp) =>
      LET d == transporters[i].descriptor IN
      /\ PoolKeys \subseteq DOMAIN d
      /\ d.maxConnections = Get(rate_limit, "max_connections", 5)
      /\ d.maxMessages = Get(rate_limit, "max_messages_per_connection", 200)
      /\ d.rateDelta = Get(rate_limit, "rate_delta", 1000)
      /\ d.rateLimit = Get(rate_limit, "rate_limit", 5)

CallerList == Get(retry, "retryable_errors", Get(retry, "retryableErrors", <<>>))

\* C18: a dispatch rejected for an exceeded rate limit ends the call with an
\* EMAIL_SEND_ERROR carrying the rate-limit text, and is retried only if
\* retry is enabled and the caller's retryable-error list holds a substring
\* of that text.
C18_RateLimitNotRetried ==
  \A c \in Calls :
    /\ (calls[c].pc = "done" /\ calls[c].error = RateLimitError) =>
         /\ calls[c].result.code = "EMAIL_SEND_ERROR"
         /\ Includes(calls[c].result.cause, <<"rate", "limit">>)
    /\ (calls[c].pc = "sleeping" /\ calls[c].error = RateLimitError) =>
         /\ retry_given
         /\ \E i \in 1..Len(CallerList) : Includes(RateLimitError, CallerList[i])

ErrorCodes == {EMAIL_ERROR_CODES[k] : k \in DOMAIN EMAIL_ERROR_CODES}

\* C20: a send_mail call that has ended has returned or has raised an
\* EmailError whose code is one of the five EMAIL_ERROR_CODES, whichever step
\* failed: validation, creation or verification of the connection,
\* verification time-out, dispatch, the last retry.
C20_ErrorsAreTyped ==
  \A c \in Calls :
    calls[c].pc = "done" =>
      \/ calls[c].result = OkResult
      \/ /\ calls[c].result.status = "error"
         /\ calls[c].result.code \in ErrorCodes
         /\ calls[c].result.text \in
              {"Missing required fields", "HTML email requires both title and body",
               "Failed to create transporter", "Failed to send email after"}

\* With retry enabled, the verification of a new connection timed out and
\* the call raised the transport error wrapping the time-out.
C20_Witness ==
  \E c \in Calls :
    /\ retry_enabled
    /\ calls[c].pc = "done"
    /\ calls[c].result.status = "error"
    /\ calls[c].result.code = "EMAIL_TRANSPORT_ERROR"
    /\ calls[c].result.cause = <<"Initial", "transporter", "verify", "timeout">>

\* C21: when the logging callback throws at one of its call sites during a
\* send_mail call that fails (invalid payload, failure to create the
\* transporter, rejected dispatch), the call still raises the EmailError of that
\* failure, with its code and cause, never the exception of the logger.
C21_LoggerNeverMasksError ==
  \A c \in Calls :
    (calls[c].pc = "done" /\ calls[c].failure # NoResult)
    => /\ calls[c].result # LoggerError
       /\ calls[c].result.code = calls[c].failure.code
       /\ calls[c].result.cause = calls[c].failure.cause

\* The step in which call c leaves the await of the new connection's verify().
VerifyNewEnds(c) == calls[c].pc = "verify_new" /\ calls'[c].pc # "verify_new"

\* C22: with retry enabled, a failure to acquire a transporter (the initial
\* verify rejected or timed out) is a failure of the attempt like a failed
\* dispatch: when the retry policy approves the attempt, the call sleeps the
\* back-off and tries again instead of raising at once.
C22_AcquisitionFailureRetried ==
  [][\A c \in Calls :
       (/\ VerifyNewEnds(c)
        /\ calls'[c].pc # "dispatching"
        /\ \E r \in {"rejected", "timeout"} :
             should_retry(<<"Failed", "to", "create", "transporter">>
                            \o transporter_error(r).cause, calls[c].attempt))
       => calls'[c].pc = "sleeping"]_vars

\* C23: the verify of a newly created connection is raced against the verify
\* timer: a call awaiting it does not wait for ever, and when the timer wins the
\* call ends raising the EMAIL_TRANSPORT_ERROR "Failed to create transporter:
\* Initial transporter verify timeout".
C23_VerifyTimeoutRaises ==
  /\ \A c \in Calls : (calls[c].pc = "verify_new") ~> (calls[c].pc # "verify_new")
  /\ [][\A c \in Calls :
          (VerifyNewEnds(c) /\ calls'[c].verify_result = "timeout")
          => /\ calls'[c].pc = "done"
             /\ calls'[c].result =
                  EmailError("Failed to create transporter", EMAIL_ERROR_CODES.TRANSPORT, 0,
                             <<"Initial", "transporter", "verify", "timeout">>)]_vars

\* A first send has ended with that error and nothing is cached.
C23_Witness ==
  \E c \in Calls :
    /\ calls[c].pc = "done"
    /\ calls[c].verify_result = "timeout"
    /\ calls[c].result.code = EMAIL_ERROR_CODES.TRANSPORT
    /\ calls[c].result.cause = <<"Initial", "transporter", "verify", "timeout">>
    /\ calls[c].dispatches = 0
    /\ cache = NoId

\* C24: the close of a transporter always completes: close() is raced against
\* the close timer, and when it rejects or the timer wins, the operation that
\* asked for it goes on. The refresh on acquire evicts the record, creates the
\* replacement and the send proceeds; the cleanup callback and destroy() delete
\* the entry and end.
C24_CloseAlwaysCompletes ==
  /\ \A c \in Calls : (calls[c].pc = "close_existing") ~> (calls[c].pc # "close_existing")
  /\ (sweeping.pc = "closing") ~> (sweeping.pc = "idle")
  /\ (destroying.pc = "closing") ~> (destroying.pc = "done")
  /\ [][/\ \A c \in Calls :
             (CloseExistingEnds(c) /\ calls'[c].close_result \in {"rejected", "timeout"})
             => EvictsAndCreates(c, calls[c].info)
        /\ (sweeping.pc = "closing" /\ sweeping'.pc # "closing")
             => (sweeping'.pc = "idle" /\ cache' = NoId)
        /\ (destroying.pc = "closing" /\ destroying'.pc # "closing")
             => (destroying'.pc = "done" /\ cache' = NoId)]_vars

\* After a close that timed out, the record is evicted and the call awaits
\* the verify of the replacement.
C24_Witness ==
  \E c \in Calls :
    /\ calls[c].pc = "verify_new"
    /\ calls[c].close_result = "timeout"
    /\ calls[c].info = 2
    /\ transporters[1].close_calls = 1
    /\ cache = NoId

\* The step in which the cleanup interval fires.
SweepTicks == now' = now + 5

\* Record id meets the refresh predicate at time t.
MeetsRefreshPredicate(id, t) ==
  \/ t - infos[id].created_at > 30
  \/ infos[id].email_count > 1000
  \/ t - infos[id].last_used > 15
  \/ ~transporters[id].is_idle
  \/ infos[id].consecutive_failures >= 3

\* C25: outside development mode the cleanup interval fires every 5 minutes
\* until destroy() clears it. At each firing, a cached record that meets the
\* refresh predicate at that moment has had close() called on it and leaves the
\* cache, at once or when its close race ends; a cached record that does not
\* meet the predicate is left as it is.
C25_SweepEvictsStaleRecords ==
  [][/\ (SweepTicks /\ cleanup_interval /\ cache # NoId /\ MeetsRefreshPredicate(cache, now'))
          => /\ transporters'[cache].close_calls = 1
             /\ \/ cache' = NoId
                \/ cache' = cache /\ sweeping'.pc = "closing" /\ sweeping'.info = cache
     /\ (SweepTicks /\ cache # NoId /\ ~MeetsRefreshPredicate(cache, now'))
          => UNCHANGED <<cache, infos, transporters, sweeping>>
     /\ (sweeping.pc = "closing" /\ sweeping'.pc # "closing")
          => cache' # sweeping.info]_vars

\* The record of the only send has been idle for more than 15 minutes, the
\* callback has closed its connection and the cache is empty.
C25_Witness ==
  /\ ~config.is_dev
  /\ cleanup_interval
  /\ now = 20
  /\ calls_started = 1
  /\ NoCallInFlight
  /\ next_id = 2
  /\ transporters[1].close_calls = 1
  /\ sweeping = NoSweep
  /\ cache = NoId

\* C26: in development mode the cleanup interval is never started: its callback
\* never runs, and a step that calls close() on a connection or takes a record
\* out of the cache is a step of a send_mail call or of destroy().
C26_NoSweepInDevMode ==
  /\ [](config.is_dev => (~cleanup_interval /\ sweeping = NoSweep))
  /\ [][(config.is_dev /\ (CloseCalls' # CloseCalls \/ (cache # NoId /\ cache' # cache)))
          => (calls' # calls \/ destroying' # destroying)]_vars

\* In development mode, twenty minutes after its only send the record is
\* still cached, its connection never closed.
C26_Witness ==
  /\ config.is_dev
  /\ now = 20
  /\ calls_started = 1
  /\ NoCallInFlight
  /\ cache = 1
  /\ transporters[1].close_calls = 0
  /\ now - infos[1].last_used > 15

\* C27: whatever the interleaving of a send that refreshes a record, the
\* cleanup callback and destroy() acting on that same record, close() is called
\* at most once on its connection.
C27_CloseAtMostOnce == \A i \in Ids : transporters[i].close_calls <= 1

\* The cleanup callback awaits the close of record 1; destroy() found the
\* record in the cache and a send found it stale, and both passed it by:
\* close() was called once.
C27_Witness ==
  /\ sweeping.pc = "closing"
  /\ sweeping.info = 1
  /\ destroying.target = 1
  /\ \E c \in Calls : calls[c].pc = "verify_new" /\ calls[c].info = 2
  /\ transporters[1].close_calls = 1

\* C28: an eviction takes out of the cache the record it closed and no other:
\* when a send has cached a replacement while the close was awaited, the end of
\* the older eviction (by the cleanup callback, by destroy() or by a send)
\* leaves the replacement in the cache.
C28_EvictionSparesReplacement ==
  [][/\ (/\ sweeping.pc = "closing" /\ sweeping'.pc # "closing"
         /\ cache \notin {NoId, sweeping.info})
          => cache' = cache
     /\ (/\ destroying.pc = "closing" /\ destroying'.pc # "closing"
         /\ cache \notin {NoId, destroying.info})
          => cache' = cache
     /\ \A c \in Calls :
          (/\ VerifyExistingEnds(c) \/ CloseExistingEnds(c)
           /\ cache \notin {NoId, calls[c].info})
          => cache' = cache]_vars

\* C29: on acquire, a cached record older than 30 minutes, or unused for more
\* than 15 minutes, or whose connection reports isIdle() false, is closed and
\* replaced by a new connection; a record whose verify() succeeds, at or below
\* both thresholds, with isIdle() true, at most 1000 emails and fewer than 3
\* consecutive failures, is not replaced.
C29_StaleRecordReplacedOnAcquire ==
  [][\A c \in Calls :
       LET id == calls[c].info IN
       /\ (/\ VerifyExistingEnds(c)
           /\ \/ now - infos[id].created_at > 30
              \/ now - infos[id].last_used > 15
              \/ ~transporters[id].is_idle)
          => StartsRefresh(c, id)
       /\ CloseExistingEnds(c) => EvictsAndCreates(c, id)
       /\ (/\ VerifyExistingEnds(c)
           /\ calls'[c].verify_result = "true"
           /\ now - infos[id].created_at <= 30
           /\ now - infos[id].last_used <= 15
           /\ transporters[id].is_idle
           /\ infos[id].email_count <= 1000
           /\ infos[id].consecutive_failures < 3)
          => (cache' = id /\ calls'[c].transporter = id /\ CloseCalls' = CloseCalls)]_vars

\* A record 45 minutes old, used 15 minutes ago, idle and verified, is being
\* closed by the fourth send.
C29_Witness ==
  \E c \in Calls :
    /\ calls[c].pc = "close_existing"
    /\ calls[c].verify_result = "true"
    /\ calls[c].info = 1
    /\ now - infos[1].created_at = 45
    /\ now - infos[1].last_used = 15
    /\ transporters[1].is_idle
    /\ infos[1].consecutive_failures = 0
    /\ transporters[1].close_calls = 1

\* C30: a record enters the cache only when the initial verify() of its
\* connection has succeeded: a new connection whose verification failed or
\* timed out is never cached, and a send dispatches only on a connection whose
\* verify() it has awaited with success.
C30_OnlyVerifiedCached ==
  [][/\ (cache' # cache /\ cache' # NoId)
          => \E c \in Calls :
               /\ VerifyNewEnds(c)
               /\ calls[c].info = cache'
               /\ calls'[c].verify_result = "true"
     /\ \A c \in Calls :
          (calls[c].pc # "dispatching" /\ calls'[c].pc = "dispatching")
          => (calls[c].pc \in {"verify_new", "verify_existing"}
              /\ calls'[c].verify_result = "true")]_vars

\* C31: in the revision before retry support, a dispatch that throws marks
\* the record it ran on for refresh: the next acquire of the key closes and
\* evicts that record and creates a new connection.
C31_FailedDispatchForcesRefresh ==
  [][\A c \in Calls :
       LET id == calls[c].info IN
       (VerifyExistingEnds(c) /\ transporters[id].fail_streak > 0)
       => (calls'[c].pc = "close_existing"
           /\ transporters'[id].close_calls = transporters[id].close_calls + 1)]_vars

\* C32: on acquire, a cached record whose verify() rejects, resolves with a
\* falsy result or loses the race against the verify timer is closed and,
\* however that close ends, taken out of the cache; a new connection is
\* created, and when its own verify passes the email is dispatched on it. The
\* verification failure of the old record is never the error of the call.
C32_FailedVerifyReplacesRecord ==
  /\ [](\A c \in Calls : calls[c].result.code # EMAIL_ERROR_CODES.CONNECTION)
  /\ [][\A c \in Calls :
          LET id == calls[c].info IN
          /\ (VerifyExistingEnds(c) /\ calls'[c].verify_result \in {"false", "rejected", "timeout"})
             => StartsRefresh(c, id)
          /\ (CloseExistingEnds(c) /\ calls[c].verify_result \in {"false", "rejected", "timeout"})
             => EvictsAndCreates(c, id)
          /\ (VerifyNewEnds(c) /\ calls'[c].pc = "dispatching")
             => (calls'[c].transporter = id /\ cache' = id)]_vars

\* The second send found the verify of the cached record answering false and
\* is closing it.
C32_Witness ==
  \E c \in Calls :
    /\ calls[c].pc = "close_existing"
    /\ calls[c].verify_result = "false"
    /\ calls[c].info = 1
    /\ cache = 1
    /\ transporters[1].is_idle
    /\ transporters[1].close_calls = 1
    /\ now = infos[1].last_used

\* C33: every retry of a send_mail call goes back through the acquire: the
\* attempt counter goes up by one per retry, a cached record is verified and
\* put to the refresh predicate again, and so no attempt is dispatched on a
\* connection whose last three dispatches failed: the attempt after the third
\* failure in a row runs on a newly created connection.
C33_RetryReacquires ==
  /\ [](\A c \in Calls :
          calls[c].pc = "dispatching"
          => /\ transporters[calls[c].transporter].fail_streak < 3
             /\ calls[c].dispatches = calls[c].attempt
             /\ Len(calls[c].slept) = calls[c].attempt - 1)
  /\ [][\A c \in Calls :
          (calls[c].pc = "sleeping" /\ calls'[c].pc # "sleeping")
          => /\ calls'[c].attempt = calls[c].attempt + 1
             /\ cache # NoId
                  => (calls'[c].pc = "verify_existing" /\ calls'[c].info = cache)]_vars

\* The fourth attempt of the first call is dispatched on the second
\* connection, the first one closed after three failures in a row.
C33_Witness ==
  \E c \in Calls :
    /\ calls_started = 1
    /\ calls[c].pc = "dispatching"
    /\ calls[c].attempt = 4
    /\ calls[c].transporter = 2
    /\ cache = 2
    /\ transporters[1].close_calls = 1
    /\ infos[2].consecutive_failures = 0

\* C34: destroy() is idempotent. A destroy() that has returned leaves the cache
\* empty, so a further destroy() calls close() on no connection, returns at
\* once and leaves the cache empty; and once destroy() has been called no
\* firing of the cleanup interval touches the mailer.
C34_DestroyIdempotent ==
  /\ [](destroying.pc = "done" => cache = NoId)
  /\ [][(destroying.count >= 1 /\ destroying'.count = destroying.count + 1)
          => /\ CloseCalls' = CloseCalls
             /\ cache' = NoId
             /\ destroying'.pc = "done"
             /\ destroying'.target = NoId]_vars
  /\ [][(destroying.count >= 1 /\ SweepTicks)
          => UNCHANGED <<cache, infos, transporters, sweeping, cleanup_interval>>]_vars

\* destroy() has been called twice on a mailer that had sent: the first call
\* closed the cached connection, the second found nothing.
C34_Witness ==
  /\ destroying.count = 2
  /\ destroying.pc = "done"
  /\ calls_started > 0
  /\ transporters[1].close_calls = 1
  /\ cache = NoId

\* The step creates a connection: createTransport is called once.
Creates == next_id' = next_id + 1

\* C35: no connection is created before the first send: after construction
\* the cache is empty and createTransport has not been called. A record comes
\* into existence only in the acquire of a send_mail call, which then awaits
\* its verify; the entry of the key is set only by such a call, to the record
\* it created; and the key has at most one record, which is a live one.
C35_CreatedOnlyByAcquire ==
  /\ [](calls_started = 0 => (cache = NoId /\ next_id = 1 /\ \A i \in Ids : ~infos[i].live))
  /\ [](cache # NoId => (cache \in Ids /\ infos[cache].live /\ transporters[cache].created))
  /\ [][next_id' # next_id
          => /\ Creates
             /\ \E c \in Calls :
                  /\ calls[c].pc \in {"idle", "done", "close_existing", "verify_existing"}
                  /\ calls'[c].pc = "verify_new"
                  /\ calls'[c].info = next_id
                  /\ infos'[next_id].live
                  /\ ~infos[next_id].live]_vars
  /\ [][(cache' # cache /\ cache' # NoId)
          => \E c \in Calls : VerifyNewEnds(c) /\ cache' = calls[c].info]_vars

\* A second send, begun while the first awaits the verify of the connection it
\* created, has created another one: two records, none of them cached yet.
C35_Witness ==
  /\ cache = NoId
  /\ next_id = 3
  /\ \A c \in Calls : calls[c].pc = "verify_new"
  /\ calls["c1"].info # calls["c2"].info

\* The step is a refresh of the acquire of some call (the verify of the cached
\* record succeeded and the refresh predicate held) or the cleanup callback
\* closing the cached record.
RefreshOrSweepCloses(id) ==
  /\ transporters'[id].close_calls > transporters[id].close_calls
  /\ \/ \E d \in Calls : VerifyExistingEnds(d) /\ calls'[d].verify_result = "true"
     \/ sweeping.pc = "idle" /\ sweeping'.pc = "closing"

\* C36: the refresh of an acquire and the cleanup callback never call close()
\* on a connection on which the dispatch of another send_mail call, which
\* found the record healthy, is still running.
C36_NoCloseUnderDispatch ==
  [][\A id \in Ids :
       RefreshOrSweepCloses(id)
       => ~\E c \in Calls :
             /\ calls[c].pc = "dispatching"
             /\ calls[c].transporter = id
             /\ calls'[c] = calls[c]]_vars

\* Connection i was created and is neither the cache entry nor closed.
Leaked(i) ==
  /\ transporters[i].created
  /\ cache # i
  /\ transporters[i].close_calls = 0

\* C37: no connection is leaked by overlapping sends: once every send_mail call
\* has returned (here: each call made so far normally, with no cleanup
\* callback and no destroy() under way), every connection that was created is
\* the cache entry or has had close() called on it.
C37_NoTransporterLeaked ==
  (/\ \A c \in Calls : calls[c].pc \in {"idle", "done"}
   /\ calls_started = Cardinality({c \in Calls : calls[c].result.status = "ok"})
   /\ sweeping.pc = "idle"
   /\ destroying.pc = "idle")
  => \A i \in Ids : ~Leaked(i)

\* C38: once destroy() has returned and every send_mail call that was in
\* flight when it was called has returned (here: each call normally, the
\* cleanup callback not under way), the cache is empty and close() has been
\* called on every connection that was created.
C38_DestroyLeavesNothingOpen ==
  (/\ destroying.pc = "done"
   /\ \A c \in Calls : calls[c].pc \in {"idle", "done"}
   /\ calls_started = Cardinality({c \in Calls : calls[c].result.status = "ok"})
   /\ sweeping.pc = "idle")
  => /\ cache = NoId
     /\ \A i \in Ids : transporters[i].created => transporters[i].close_calls > 0

\* C39: the end of a dispatch is counted on the record of the connection that
\* performed it: no other record has its email count or its failure count
\* changed by it, so a record created while the dispatch was in flight is not
\* charged with the failure of its predecessor.
C39_MetricsChargeDispatcher ==
  [][\A c \in Calls :
       DispatchEnds(c)
       => \A j \in Ids :
            (j # calls[c].transporter /\ infos[j].live /\ infos'[j].live)
            => /\ infos'[j].email_count = infos[j].email_count
               /\ infos'[j].consecutive_failures = infos[j].consecutive_failures]_vars

\* C40: within one send_mail call at most one dispatch succeeds: once
\* transporter.sendMail has resolved the call has returned normally, whatever
\* the logging callback does and whether or not retry is enabled.
C40_AtMostOneDelivery ==
  \A c \in Calls :
    calls[c].delivered >= 1
    => /\ calls[c].delivered = 1
       /\ calls[c].pc = "done"
       /\ calls[c].result = OkResult

====
